---------------------------- MODULE Spec2Model ----------------------------
(***************************************************************************)
(* Model of the discovery / session-establishment engine of kdeconnect-rs  *)
(* (kdeconnect/src/main.rs): the UDP broadcaster and listener, the TCP     *)
(* accept loop, the per-connection task handle_conn, and the device        *)
(* registry of the Device Manager it drives.                               *)
(***************************************************************************)
EXTENDS Integers, Sequences, FiniteSets, TLC

(***************************************************************************)
(* Bounds of the model.                                                    *)
(***************************************************************************)
\* connection tasks (handle_conn) spawned in one run
MaxSess == 2
\* bytes of the identity JSON written before the 0x0A
MaxIdLen == 3
\* packets waiting in one session's outbound channel
MaxQueue == 1
\* lines a peer sends into one session's packet loop
MaxLines == 2
\* packets the producers queue for one session's packet loop
MaxOut == 2
\* events event_handler receives in one run
MaxEvents == 3
\* clock ticks of one run of event_handler
MaxTicks == 4
\* calls of send_packet in one session
MaxPackets == 2
\* bytes of a payload
MaxLen == 1
\* connections the peers open to the payload sub-servers
MaxPeers == 3
\* identity packets of one kind the process sends after its start
MaxIdent == 2

(***************************************************************************)
(* Identities.  LocalUuid is ctx.config.uuid; Peers are remote deviceIds.  *)
(***************************************************************************)
LocalUuid == "AAAA"
Peers == {"B1", "B2"}
DeviceIds == Peers \cup {LocalUuid}
\* Role::Server before the identity line has been read
NoDevice == "?"

PACKET_TYPE_IDENTITY == "kdeconnect.identity"
PACKET_TYPE_PAIR == "kdeconnect.pair"
PacketTypes == {PACKET_TYPE_IDENTITY, PACKET_TYPE_PAIR}

\* IdentityPacket.tcp_port == None
NoPort == 0
\* a port advertised by a peer
PeerPort == 1716

Sessions == 1 .. MaxSess

VARIABLES
    registry,   \* Device Manager: set of [device_id, conn_id] entries
    next_conn,  \* Device Manager: next connectionId to hand out
    sess,       \* sess[s]: the handle_conn task s
    nsess,      \* number of connection tasks spawned so far
    us_pc,      \* udp_server: position in its loop
    reported,   \* udp_server: what active_device_count() returned this round
    sent,       \* udp_server: a datagram was emitted in this round
    ul_pc,      \* udp_listener / handle_udp_packet: position
    ul_dg,      \* udp_listener: datagram in buf[..n]
    ul_last,    \* how handle_udp_packet left its last datagram
    hs_idlen,   \* handshake pair: length of the dialer's identity in bytes
    hs_dial,    \* handshake pair: handle_conn(Role::Client) on the dialler
    hs_list,    \* handshake pair: handle_conn(Role::Server) on the listener
    hs_d2l,     \* handshake pair: bytes in flight, dialler to listener
    hs_l2d,     \* handshake pair: bytes in flight, listener to dialler
    hs_log,     \* handshake pair: everything the dialler has written
    ts_pc,      \* tcp_server: position of the accept loop
    lp_pc,      \* packet loop: position of the handle_conn task
    lp_env,     \* packet loop: the peer (half-sent line, EOF) and the channel
    lp_lines,   \* packet loop: kinds of the lines the peer has sent
    lp_net,     \* packet loop: segments received and not yet read
    lp_line,    \* packet loop: `line` of the pending read_line
    lp_chan,    \* packet loop: packets queued in the outbound channel
    lp_nout,    \* packet loop: packets queued so far
    lp_log,     \* packet loop: what the task did, in order
    ev_pc,      \* event_handler: running, or returned
    last_message, \* event_handler: the stored event, or None
    ev_timer,   \* event_handler: ms since the sleep of this iteration began
    ev_log,     \* event_handler: ticks, receptions and broadcasts, in order
    pl_env,     \* payload: which ports the host lets bind, and the build
    pl_pc,      \* payload: the session task that calls send_packet
    pl_wire,    \* payload: the frames send_packet has written
    pl_calls,   \* payload: the calls of send_packet, in order
    pl_srv,     \* payload: the serve_payload tasks
    pl_peers,   \* payload: the per-connection tasks of the sub-servers
    tp_busy,    \* startup: ports on which bind fails
    tp_pc,      \* startup: server_main in open_tcp_server, serving, or failed
    tp_port,    \* startup: `port` of the loop, then tcp_port of server_main
    tp_last,    \* startup: last_error of open_tcp_server
    id_cast,    \* startup: identity packets udp_server has broadcast
    id_hello    \* startup: identity packets diallers wrote before TLS

dm_vars == <<registry, next_conn>>
conn_vars == <<sess, nsess>>
bcast_vars == <<us_pc, reported, sent>>
listen_vars == <<ul_pc, ul_dg, ul_last>>
hs_vars == <<hs_idlen, hs_dial, hs_list, hs_d2l, hs_l2d, hs_log>>
lp_vars == <<lp_pc, lp_env, lp_lines, lp_net, lp_line, lp_chan, lp_nout, lp_log>>
ev_vars == <<ev_pc, last_message, ev_timer, ev_log>>
pl_vars == <<pl_env, pl_pc, pl_wire, pl_calls, pl_srv, pl_peers>>
tp_vars == <<tp_busy, tp_pc, tp_port, tp_last, id_cast, id_hello>>
main_vars == <<dm_vars, conn_vars, bcast_vars, listen_vars>>
\* what the tasks of the connection engine leave alone
quiet_vars == <<hs_vars, lp_vars, ev_vars, pl_vars, tp_vars>>
side_vars == <<ts_pc, quiet_vars>>
\* what the handshake pair leaves alone
beside_hs == <<main_vars, ts_pc, lp_vars, ev_vars, pl_vars, tp_vars>>
\* what the packet loop leaves alone
beside_lp == <<main_vars, ts_pc, hs_vars, ev_vars, pl_vars, tp_vars>>
\* what event_handler leaves alone
beside_ev == <<main_vars, ts_pc, hs_vars, lp_vars, pl_vars, tp_vars>>
\* what send_packet and the payload sub-servers leave alone
beside_pl == <<main_vars, ts_pc, hs_vars, lp_vars, ev_vars, tp_vars>>
\* what the start of the process and its identity packets leave alone
beside_tp == <<main_vars, hs_vars, lp_vars, ev_vars, pl_vars>>

vars ==
    <<dm_vars, conn_vars, bcast_vars, listen_vars, ts_pc, hs_vars, lp_vars, ev_vars,
      pl_vars, tp_vars>>

(***************************************************************************)
(* Device Manager (device.rs), by its contract: section 4.5 of the         *)
(* specification.                                                          *)
(***************************************************************************)
Entry(d, cid) == [device_id |-> d, conn_id |-> cid]

\* (variant: add that keeps the entry it should replace)
add_device_keep(reg, d, cid) == reg \cup {Entry(d, cid)}

\* add: the new registration replaces any entry of the same deviceId.
add_device(reg, d, cid) ==
    {e \in reg : e.device_id # d} \cup {Entry(d, cid)}

\* (variant: remove that ignores the connectionId)
remove_device_any(reg, d, cid) == {e \in reg : e.device_id # d}

\* remove: deletes the entry only if the stored connectionId matches.
remove_device(reg, d, cid) ==
    {e \in reg : ~(e.device_id = d /\ e.conn_id = cid)}

query_device(reg, d) == \E e \in reg : e.device_id = d

active_device_count(reg) == Cardinality(reg)

\* The outbound sender of a session lives in its registry entry only: the
\* channel of every session whose entry left the registry is closed.
CloseDropped(ss, reg) ==
    [t \in Sessions |->
        IF ss[t].open /\ Entry(ss[t].dev, ss[t].cid) \notin reg
        THEN [ss[t] EXCEPT !.open = FALSE]
        ELSE ss[t]]

(***************************************************************************)
(* Datagrams received by udp_listener.                                     *)
(***************************************************************************)
Datagram(p, t, d, port) ==
    [parse |-> p, typ |-> t, device_id |-> d, tcp_port |-> port]

Datagrams ==
    {Datagram("bad_json", PACKET_TYPE_IDENTITY, LocalUuid, NoPort),
     Datagram("bad_body", PACKET_TYPE_IDENTITY, LocalUuid, NoPort)}
    \cup {Datagram("ok", t, d, port) :
            t \in PacketTypes, d \in DeviceIds, port \in {NoPort, PeerPort}}

(***************************************************************************)
(* Initial state: no connection, empty registry, all tasks at loop head.   *)
(***************************************************************************)
IdleSession ==
    [role |-> "none", dev |-> NoDevice, pc |-> "idle", cid |-> 0,
     open |-> FALSE, q |-> 0, cause |-> "none"]

\* A dialler and a listener, both at the `match role` of line 303.
HsStart(n) ==
    /\ hs_idlen = n
    /\ hs_dial = [pc |-> "write_id", sent |-> 0, tls |-> "none", done |-> FALSE]
    /\ hs_list = [pc |-> "read", buf |-> 0, tls |-> "none", done |-> FALSE]
    /\ hs_d2l = <<>>
    /\ hs_l2d = <<>>
    /\ hs_log = <<>>

InitMain ==
    /\ registry = {}
    /\ next_conn = 1
    /\ sess = [s \in Sessions |-> IdleSession]
    /\ nsess = 0
    /\ us_pc = "check"
    /\ reported = -1
    /\ sent = FALSE
    /\ ul_pc = "recv"
    /\ ul_dg = Datagram("bad_json", PACKET_TYPE_IDENTITY, LocalUuid, NoPort)
    /\ ul_last = "none"
    /\ ts_pc = "accept"

\* A registered session at the head of its packet loop (line 374).
LpStart ==
    /\ lp_pc = "select"
    /\ lp_env = [half |-> 0, eof |-> FALSE, closed |-> FALSE]
    /\ lp_lines = <<>>
    /\ lp_net = <<>>
    /\ lp_line = <<>>
    /\ lp_chan = <<>>
    /\ lp_nout = 0
    /\ lp_log = <<>>

\* the value of an empty Option
None == "None"

\* event_handler at line 464
EvStart ==
    /\ ev_pc = "run"
    /\ last_message = None
    /\ ev_timer = 0
    /\ ev_log = <<>>

\* line 192: const MIN_PORT: u16 = 1765
PAYLOAD_MIN_PORT == 1765
\* the largest u16, the type of the port counter (line 191)
MAX_U16 == 65535
\* line 244: Duration::from_secs(60)
PAYLOAD_TIMEOUT == 60

\* A host on which every port from 1765 to busy_to refuses bind and, below
\* 1765, only the ports of low accept it (port 0 asks for an ephemeral port,
\* and those lie above 1765); built with or without overflow checks.
PlStart(busy_to, low, build) ==
    /\ pl_env = [busy_to |-> busy_to, low |-> low, build |-> build]
    /\ pl_pc = "loop"
    /\ pl_wire = <<>>
    /\ pl_calls = <<>>
    /\ pl_srv = <<>>
    /\ pl_peers = <<>>

\* lines 174-175 of open_tcp_server
MIN_PORT == 1716
MAX_PORT == 1764

\* server_main at line 502, on a host where bind fails on the ports of busy
TpStart(busy) ==
    /\ tp_busy = busy
    /\ tp_pc = "scan"
    /\ tp_port = MIN_PORT
    /\ tp_last = None
    /\ id_cast = <<>>
    /\ id_hello = <<>>

InitRest ==
    /\ LpStart /\ EvStart /\ PlStart(PAYLOAD_MIN_PORT - 1, {}, "debug")
    /\ TpStart({})

Init == InitMain /\ HsStart(1) /\ InitRest

\* tokio::spawn of a handle_conn task (lines 128 and 449)
Spawn(role, d) ==
    /\ nsess < MaxSess
    /\ sess[nsess + 1].pc = "idle"
    /\ nsess' = nsess + 1
    /\ sess' = [sess EXCEPT ![nsess + 1] =
                  [IdleSession EXCEPT !.role = role, !.dev = d, !.pc = "handshake"]]

(***************************************************************************)
(* udp_server: the broadcaster loop.                                       *)
(***************************************************************************)
\* (variant: the broadcaster does not look at the count)
udp_server_check_always ==
    /\ us_pc = "check"
    /\ reported' = active_device_count(registry)
    /\ us_pc' = "send"
    /\ sent' = FALSE
    /\ UNCHANGED <<dm_vars, conn_vars, listen_vars, side_vars>>

\* line 93: the test of active_device_count()
udp_server_check ==
    /\ us_pc = "check"
    /\ reported' = active_device_count(registry)
    /\ us_pc' = IF active_device_count(registry) = 0 THEN "send" ELSE "sleep"
    /\ sent' = FALSE
    /\ UNCHANGED <<dm_vars, conn_vars, listen_vars, side_vars>>

\* lines 95-97: reset_ts, serialise, send_to succeeded
udp_server_send ==
    /\ us_pc = "send"
    /\ sent' = TRUE
    /\ us_pc' = "sleep"
    /\ UNCHANGED <<dm_vars, conn_vars, reported, listen_vars, side_vars>>

\* line 97: send_to failed, `?` ends the broadcaster task
udp_server_send_err ==
    /\ us_pc = "send"
    /\ us_pc' = "exited"
    /\ UNCHANGED <<dm_vars, conn_vars, reported, sent, listen_vars, side_vars>>

\* line 99: the 5 s sleep is over
udp_server_sleep ==
    /\ us_pc = "sleep"
    /\ us_pc' = "check"
    /\ reported' = -1
    /\ sent' = FALSE
    /\ UNCHANGED <<dm_vars, conn_vars, listen_vars, side_vars>>

(***************************************************************************)
(* udp_listener and handle_udp_packet.                                     *)
(***************************************************************************)
\* (variant: no test for the local uuid)
UdpVerdict_noself(dg, reg) ==
    IF dg.parse = "bad_json" THEN "err"
    ELSE IF dg.typ # PACKET_TYPE_IDENTITY THEN "err"
    ELSE IF dg.parse = "bad_body" THEN "err"
    ELSE IF query_device(reg, dg.device_id) THEN "duplicate"
    ELSE IF dg.tcp_port = NoPort THEN "err"
    ELSE "dial"

\* (variant: no query of the registry)
UdpVerdict_noquery(dg, reg) ==
    IF dg.parse = "bad_json" THEN "err"
    ELSE IF dg.typ # PACKET_TYPE_IDENTITY THEN "err"
    ELSE IF dg.parse = "bad_body" THEN "err"
    ELSE IF dg.device_id = LocalUuid THEN "self"
    ELSE IF dg.tcp_port = NoPort THEN "err"
    ELSE "dial"

\* What handle_udp_packet decides for datagram dg up to the dial (104-123).
UdpVerdict(dg, reg) ==
    IF dg.parse = "bad_json" THEN "err"                         \* line 105
    ELSE IF dg.typ # PACKET_TYPE_IDENTITY THEN "err"            \* line 106
    ELSE IF dg.parse = "bad_body" THEN "err"                    \* line 110
    ELSE IF dg.device_id = LocalUuid THEN "self"                \* line 112
    ELSE IF query_device(reg, dg.device_id) THEN "duplicate"    \* line 116
    ELSE IF dg.tcp_port = NoPort THEN "err"                     \* line 121
    ELSE "dial"

\* recv_from returns dg; handle_udp_packet runs up to TcpStream::connect
handle_udp_packet(dg) ==
    /\ ul_pc = "recv"
    /\ ul_dg' = dg
    /\ ul_last' = UdpVerdict(dg, registry)
    /\ ul_pc' = IF UdpVerdict(dg, registry) = "dial" THEN "connect" ELSE "recv"
    /\ UNCHANGED <<dm_vars, conn_vars, bcast_vars, side_vars>>

\* line 125 succeeded; lines 127-138 spawn handle_conn(Role::Client)
udp_connect_ok ==
    /\ ul_pc = "connect"
    /\ Spawn("Client", ul_dg.device_id)
    /\ ul_pc' = "recv"
    /\ UNCHANGED <<dm_vars, bcast_vars, ul_dg, ul_last, side_vars>>

\* line 125 failed: the error is logged by udp_listener (166-168)
udp_connect_err ==
    /\ ul_pc = "connect"
    /\ ul_pc' = "recv"
    /\ UNCHANGED <<dm_vars, conn_vars, bcast_vars, ul_dg, ul_last, side_vars>>

(***************************************************************************)
(* tcp_server: accept and spawn handle_conn(Role::Server).                 *)
(***************************************************************************)
tcp_server ==
    /\ ts_pc = "accept"
    /\ Spawn("Server", NoDevice)
    /\ UNCHANGED <<dm_vars, bcast_vars, listen_vars, side_vars>>

\* line 445: accept() fails and `?` ends the accept loop
tcp_server_err ==
    /\ ts_pc = "accept"
    /\ ts_pc' = "exited"
    /\ UNCHANGED <<main_vars, quiet_vars>>

(***************************************************************************)
(* handle_conn: one task per TCP connection.                               *)
(***************************************************************************)
HandshakeOutcomes ==
    {"io_err", "bad_json", "wrong_type", "bad_body", "tls_err", "ok"}

\* (variant: tcp_server awaits handle_conn itself and returns its error)
conn_handshake_inline(s, outcome, d) ==
    /\ sess[s].pc = "handshake"
    /\ sess[s].role = "Client" => d = sess[s].dev
    /\ sess[s].role = "Client" => outcome \in {"io_err", "tls_err", "ok"}
    /\ sess' = [sess EXCEPT ![s] =
                  IF outcome = "ok"
                  THEN [@ EXCEPT !.dev = d, !.pc = "add"]
                  ELSE [@ EXCEPT !.pc = "failed"]]
    /\ ts_pc' = IF outcome # "ok" /\ sess[s].role = "Server" THEN "exited" ELSE ts_pc
    /\ UNCHANGED <<dm_vars, nsess, bcast_vars, listen_vars, quiet_vars>>

\* (variant: a failed handshake clears the deviceId's registry entry)
conn_handshake_cleanup(s, outcome, d) ==
    /\ sess[s].pc = "handshake"
    /\ sess[s].role = "Client" => d = sess[s].dev
    /\ sess[s].role = "Client" => outcome \in {"io_err", "tls_err", "ok"}
    /\ sess' = [sess EXCEPT ![s] =
                  IF outcome = "ok"
                  THEN [@ EXCEPT !.dev = d, !.pc = "add"]
                  ELSE [@ EXCEPT !.pc = "failed"]]
    /\ registry' = IF outcome = "ok" THEN registry
                   ELSE {e \in registry : e.device_id # d}
    /\ UNCHANGED <<next_conn, nsess, bcast_vars, listen_vars, side_vars>>

\* lines 289-367: socket tuning, plaintext identity, TLS handshake.  A
\* Role::Server task learns the deviceId d from the identity line it reads;
\* every failure leaves through `?` or bail!.
conn_handshake(s, outcome, d) ==
    /\ sess[s].pc = "handshake"
    /\ sess[s].role = "Client" => d = sess[s].dev
    /\ sess[s].role = "Client" => outcome \in {"io_err", "tls_err", "ok"}
    /\ sess' = [sess EXCEPT ![s] =
                  IF outcome = "ok"
                  THEN [@ EXCEPT !.dev = d, !.pc = "add"]
                  ELSE [@ EXCEPT !.pc = "failed"]]
    /\ UNCHANGED <<dm_vars, nsess, bcast_vars, listen_vars, side_vars>>

\* lines 369-372: register with the Device Manager
conn_add(s) ==
    /\ sess[s].pc = "add"
    /\ registry' = add_device(registry, sess[s].dev, next_conn)
    /\ next_conn' = next_conn + 1
    /\ sess' = CloseDropped(
                  [sess EXCEPT ![s] =
                      [@ EXCEPT !.cid = next_conn, !.open = TRUE, !.pc = "loop"]],
                  registry')
    /\ UNCHANGED <<nsess, bcast_vars, listen_vars, side_vars>>

\* lines 378-384 and 427: packet_rx.recv() yields a packet; send_packet
\* and the flush either succeed or break the loop
conn_recv_packet(s, ok) ==
    /\ sess[s].pc = "loop"
    /\ sess[s].q > 0
    /\ sess' = [sess EXCEPT ![s] =
                  IF ok THEN [@ EXCEPT !.q = @ - 1]
                  ELSE [@ EXCEPT !.q = 0, !.pc = "grace", !.cause = "io"]]
    /\ UNCHANGED <<dm_vars, nsess, bcast_vars, listen_vars, side_vars>>

\* (variant: the None of a closed channel does not break the loop)
conn_recv_none_ignored(s) ==
    /\ sess[s].pc = "loop"
    /\ sess[s].q = 0
    /\ ~sess[s].open
    /\ UNCHANGED vars

\* lines 385-388: packet_rx.recv() yields None (channel closed and drained)
conn_recv_none(s) ==
    /\ sess[s].pc = "loop"
    /\ sess[s].q = 0
    /\ ~sess[s].open
    /\ sess' = [sess EXCEPT ![s] = [@ EXCEPT !.pc = "grace", !.cause = "closed"]]
    /\ UNCHANGED <<dm_vars, nsess, bcast_vars, listen_vars, side_vars>>

ReadOutcomes ==
    {"eof", "err", "pair_ok", "pair_err", "other", "garbage", "flush_err"}

\* Where the read branch of the select leaves the task (lines 391-430).
ReadTarget(outcome) ==
    CASE outcome = "eof" -> "grace"             \* line 394
      [] outcome = "err" -> "grace"             \* line 398
      [] outcome = "pair_err" -> "failed"       \* line 413, `?`
      [] outcome = "flush_err" -> "grace"       \* line 427
      [] OTHER -> "loop"       \* pair answered, dispatched, or parse error

\* The packets still queued are never read once the loop is left.
conn_read(s, outcome) ==
    /\ sess[s].pc = "loop"
    /\ sess' = [sess EXCEPT ![s] =
                  IF ReadTarget(outcome) = "loop" THEN @
                  ELSE [@ EXCEPT !.pc = ReadTarget(outcome), !.q = 0,
                                 !.cause = "io"]]
    /\ UNCHANGED <<dm_vars, nsess, bcast_vars, listen_vars, side_vars>>

\* (variant: the teardown removes whatever entry the deviceId has)
conn_remove_stored(s) ==
    /\ sess[s].pc = "grace"
    /\ registry' = {e \in registry : e.device_id # sess[s].dev}
    /\ sess' = CloseDropped([sess EXCEPT ![s].pc = "done"], registry')
    /\ UNCHANGED <<next_conn, nsess, bcast_vars, listen_vars, side_vars>>

\* lines 434-438: the 1 s grace is over, remove_device, return Ok
conn_remove(s) ==
    /\ sess[s].pc = "grace"
    /\ registry' = remove_device(registry, sess[s].dev, sess[s].cid)
    /\ sess' = CloseDropped([sess EXCEPT ![s].pc = "done"], registry')
    /\ UNCHANGED <<next_conn, nsess, bcast_vars, listen_vars, side_vars>>

\* A producer (plugin, event fan-out) pushes a packet through the sender
\* stored in the registry; full channels are skipped.
enqueue(s) ==
    /\ sess[s].pc = "loop"
    /\ sess[s].open
    /\ sess[s].q < MaxQueue
    /\ sess' = [sess EXCEPT ![s].q = @ + 1]
    /\ UNCHANGED <<dm_vars, nsess, bcast_vars, listen_vars, side_vars>>

\* The outbound branch of the select (lines 378-389).
conn_recv(s) ==
    \/ \E ok \in BOOLEAN : conn_recv_packet(s, ok)
    \/ conn_recv_none(s)

\* handle_conn of a connection whose remote end is one of the devices D
handle_conn_of(s, D) ==
    \/ \E o \in HandshakeOutcomes, d \in D : conn_handshake(s, o, d)
    \/ conn_add(s)
    \/ conn_recv(s)
    \/ \E o \in ReadOutcomes : conn_read(s, o)
    \/ conn_remove(s)

handle_conn(s) == handle_conn_of(s, Peers)

(***************************************************************************)
(* The connection engine: accepted and dialled connections, the registry.  *)
(* The datagrams are the well-formed announcements of the peers.           *)
(***************************************************************************)
Announcements == {Datagram("ok", PACKET_TYPE_IDENTITY, d, PeerPort) : d \in Peers}

NextConn ==
    \/ \E dg \in Announcements : handle_udp_packet(dg)
    \/ udp_connect_ok
    \/ udp_connect_err
    \/ tcp_server
    \/ \E s \in Sessions : handle_conn(s)
    \/ \E s \in Sessions : enqueue(s)

Next == NextConn


Spec == Init /\ [][Next]_vars

(***************************************************************************)
(* The connection engine when every connection is one peer's: the dialled  *)
(* and the accepted connections of that peer race for its registry entry.  *)
(***************************************************************************)
ThePeer == "B1"

NextOnePeer ==
    \/ handle_udp_packet(Datagram("ok", PACKET_TYPE_IDENTITY, ThePeer, PeerPort))
    \/ udp_connect_ok
    \/ udp_connect_err
    \/ tcp_server
    \/ \E s \in Sessions : handle_conn_of(s, {ThePeer})
    \/ \E s \in Sessions : enqueue(s)

SpecOnePeer == Init /\ [][NextOnePeer]_vars

\* tokio::select! polls its ready branches in random order: a branch that
\* stays ready is eventually taken.
FairOnePeer == SpecOnePeer /\ \A s \in Sessions : WF_vars(conn_recv(s))

\* The connection engine with a listener whose accept() can fail: one peer
\* announces itself and is dialled, any peer connects.
NextIsolation ==
    \/ handle_udp_packet(Datagram("ok", PACKET_TYPE_IDENTITY, ThePeer, PeerPort))
    \/ udp_connect_ok
    \/ udp_connect_err
    \/ tcp_server
    \/ tcp_server_err
    \/ \E s \in Sessions : handle_conn(s)
    \/ \E s \in Sessions : enqueue(s)

SpecIsolation == Init /\ [][NextIsolation]_vars

(***************************************************************************)
(* The broadcaster next to the connection engine, one peer on the network. *)
(***************************************************************************)
NextBroadcast ==
    \/ udp_server_check
    \/ udp_server_send
    \/ udp_server_send_err
    \/ udp_server_sleep
    \/ NextOnePeer

SpecBroadcast == Init /\ [][NextBroadcast]_vars

\* The broadcaster task is scheduled whenever it can run.
FairBroadcast ==
    /\ SpecBroadcast
    /\ WF_vars(udp_server_check)
    /\ WF_vars(udp_server_send \/ udp_server_send_err)
    /\ WF_vars(udp_server_sleep)

(***************************************************************************)
(* The listener with every kind of datagram (the peer's, and the local     *)
(* device's own broadcasts) next to the connection engine.                 *)
(***************************************************************************)
ListenDatagrams == {dg \in Datagrams : dg.device_id \in {LocalUuid, ThePeer}}

NextListen ==
    \/ \E dg \in ListenDatagrams : handle_udp_packet(dg)
    \/ udp_connect_ok
    \/ udp_connect_err
    \/ tcp_server
    \/ \E s \in Sessions : handle_conn_of(s, {ThePeer})
    \/ \E s \in Sessions : enqueue(s)

SpecListen == Init /\ [][NextListen]_vars

TypeOK ==
    /\ \A e \in registry : e.device_id \in DeviceIds /\ e.conn_id \in 1 .. MaxSess
    /\ next_conn \in 1 .. MaxSess + 1
    /\ nsess \in 0 .. MaxSess
    /\ us_pc \in {"check", "send", "sleep", "exited"}
    /\ ul_pc \in {"recv", "connect"}
    /\ ul_dg \in Datagrams
    /\ ts_pc \in {"accept", "exited"}

(***************************************************************************)
(* The handshake of one connection, byte by byte: handle_conn of the host  *)
(* that dialled (Role::Client) against handle_conn of the host that        *)
(* accepted (Role::Server), on one TCP connection.                         *)
(***************************************************************************)
\* a byte of JSON text, and 0x0A
PlainBytes == {"b", "nl"}

\* Role::Client, line 337: write_all of the identity JSON, a byte at a time
hs_dial_write_id ==
    /\ hs_dial.pc = "write_id"
    /\ IF hs_dial.sent < hs_idlen
       THEN /\ hs_d2l' = Append(hs_d2l, "b")
            /\ hs_log' = Append(hs_log, "b")
            /\ hs_dial' = [hs_dial EXCEPT !.sent = @ + 1]
       ELSE /\ hs_dial' = [hs_dial EXCEPT !.pc = "write_nl"]
            /\ UNCHANGED <<hs_d2l, hs_log>>
    /\ UNCHANGED <<beside_hs, hs_idlen, hs_list, hs_l2d>>

\* Role::Client, line 338: write_all(b"\n"); then tls_acceptor().accept
hs_dial_write_nl ==
    /\ hs_dial.pc = "write_nl"
    /\ hs_d2l' = Append(hs_d2l, "nl")
    /\ hs_log' = Append(hs_log, "nl")
    /\ hs_dial' = [hs_dial EXCEPT !.pc = "tls_accept", !.tls = "server"]
    /\ UNCHANGED <<beside_hs, hs_idlen, hs_list, hs_l2d>>

\* Role::Client, lines 342-345: the acceptor waits for the ClientHello and
\* answers it
hs_dial_tls_accept ==
    /\ hs_dial.pc = "tls_accept"
    /\ hs_l2d # <<>>
    /\ Head(hs_l2d) = "ClientHello"
    /\ hs_l2d' = Tail(hs_l2d)
    /\ hs_d2l' = Append(hs_d2l, "ServerHello")
    /\ hs_log' = Append(hs_log, "ServerHello")
    /\ hs_dial' = [hs_dial EXCEPT !.pc = "tls_finish"]
    /\ UNCHANGED <<beside_hs, hs_idlen, hs_list>>

\* Role::Client, lines 342-345: accept resolves on the client's Finished
hs_dial_tls_finish ==
    /\ hs_dial.pc = "tls_finish"
    /\ hs_l2d # <<>>
    /\ Head(hs_l2d) = "Finished"
    /\ hs_l2d' = Tail(hs_l2d)
    /\ hs_dial' = [hs_dial EXCEPT !.pc = "add", !.done = TRUE]
    /\ UNCHANGED <<beside_hs, hs_idlen, hs_list, hs_d2l, hs_log>>

\* lines 369-372 on the dialler: add_device, then the packet loop
hs_dial_add ==
    /\ hs_dial.pc = "add"
    /\ hs_dial' = [hs_dial EXCEPT !.pc = "loop"]
    /\ UNCHANGED <<beside_hs, hs_idlen, hs_list, hs_d2l, hs_l2d, hs_log>>

\* an I/O or TLS error on the dialler: `?` returns from handle_conn
hs_dial_err ==
    /\ hs_dial.pc \in {"write_id", "write_nl", "tls_accept", "tls_finish"}
    /\ hs_dial' = [hs_dial EXCEPT !.pc = "failed"]
    /\ UNCHANGED <<beside_hs, hs_idlen, hs_list, hs_d2l, hs_l2d, hs_log>>

\* Role::Server, lines 306-312: read_u8 until 0x0A
hs_list_read ==
    /\ hs_list.pc = "read"
    /\ hs_d2l # <<>>
    /\ hs_d2l' = Tail(hs_d2l)
    /\ hs_list' = IF Head(hs_d2l) = "nl"
                  THEN [hs_list EXCEPT !.pc = "parse"]
                  ELSE [hs_list EXCEPT !.buf = @ + 1]
    /\ UNCHANGED <<beside_hs, hs_idlen, hs_dial, hs_l2d, hs_log>>

\* Role::Server, lines 314-318: the line read is the identity packet exactly
\* when it holds all of its bytes
hs_list_parse ==
    /\ hs_list.pc = "parse"
    /\ hs_list' = IF hs_list.buf = hs_idlen
                  THEN [hs_list EXCEPT !.pc = "tls_connect"]
                  ELSE [hs_list EXCEPT !.pc = "failed"]
    /\ UNCHANGED <<beside_hs, hs_idlen, hs_dial, hs_d2l, hs_l2d, hs_log>>

\* (variant: the TCP listener takes the TLS server role and waits)
hs_list_tls_accept ==
    /\ hs_list.pc = "tls_connect"
    /\ hs_list.tls = "none"
    /\ hs_list' = [hs_list EXCEPT !.tls = "server"]
    /\ UNCHANGED <<beside_hs, hs_idlen, hs_dial, hs_d2l, hs_l2d, hs_log>>

\* Role::Server, lines 322-325: the connector sends the ClientHello
hs_list_tls_connect ==
    /\ hs_list.pc = "tls_connect"
    /\ hs_l2d' = Append(hs_l2d, "ClientHello")
    /\ hs_list' = [hs_list EXCEPT !.pc = "tls_wait", !.tls = "client"]
    /\ UNCHANGED <<beside_hs, hs_idlen, hs_dial, hs_d2l, hs_log>>

\* Role::Server, lines 322-325: connect resolves once the server's flight
\* has arrived and the Finished is sent
hs_list_tls_finish ==
    /\ hs_list.pc = "tls_wait"
    /\ hs_d2l # <<>>
    /\ Head(hs_d2l) = "ServerHello"
    /\ hs_d2l' = Tail(hs_d2l)
    /\ hs_l2d' = Append(hs_l2d, "Finished")
    /\ hs_list' = [hs_list EXCEPT !.pc = "add", !.done = TRUE]
    /\ UNCHANGED <<beside_hs, hs_idlen, hs_dial, hs_log>>

\* lines 369-372 on the listener: add_device, then the packet loop
hs_list_add ==
    /\ hs_list.pc = "add"
    /\ hs_list' = [hs_list EXCEPT !.pc = "loop"]
    /\ UNCHANGED <<beside_hs, hs_idlen, hs_dial, hs_d2l, hs_l2d, hs_log>>

\* an I/O or TLS error on the listener: `?` returns from handle_conn
hs_list_err ==
    /\ hs_list.pc \in {"read", "tls_connect", "tls_wait"}
    /\ hs_list' = [hs_list EXCEPT !.pc = "failed"]
    /\ UNCHANGED <<beside_hs, hs_idlen, hs_dial, hs_d2l, hs_l2d, hs_log>>

HsDialStep ==
    \/ hs_dial_write_id
    \/ hs_dial_write_nl
    \/ hs_dial_tls_accept
    \/ hs_dial_tls_finish
    \/ hs_dial_add

HsListStep ==
    \/ hs_list_read
    \/ hs_list_parse
    \/ hs_list_tls_connect
    \/ hs_list_tls_finish
    \/ hs_list_add

NextHandshake ==
    \/ HsDialStep
    \/ hs_dial_err
    \/ HsListStep
    \/ hs_list_err

InitHandshake == InitMain /\ (\E n \in 1 .. MaxIdLen : HsStart(n)) /\ InitRest

SpecHandshake == InitHandshake /\ [][NextHandshake]_vars

\* Both tasks are scheduled whenever they can run; errors are not forced.
FairHandshake ==
    /\ SpecHandshake
    /\ WF_vars(HsDialStep)
    /\ WF_vars(HsListStep)

(***************************************************************************)
(* The packet loop of one registered session (handle_conn, lines 374-431)  *)
(* with its peer and the producers of its outbound channel.  lp_log is the *)
(* trace of the task: what it read, dequeued, wrote, dispatched, dropped.  *)
(***************************************************************************)
LineKinds == {"pair", "data", "garbage"}

\* the bytes send_packet puts on the stream for packet j (lines 276-282)
Frame_nonl(j) == <<<<"json", j>>>>

Frame(j) == <<<<"json", j>>, <<"nl", 0>>>>

\* NetworkPacket::new_pair(true).write_to_conn: one frame; 0 stands for it
PairAck == Frame(0)

\* line 427: the flush that ends an iteration
Flush(ok) == IF ok THEN <<>> ELSE <<<<"flush_err", 0>>>>

\* (variant: a pair packet takes the default arm of the match)
HandleLine_dispatch(kind, i, ackok) ==
    CASE kind \in {"pair", "data"} -> <<<<"dispatch", i>>>>
      [] OTHER -> <<<<"drop", i>>>>

\* lines 407-423: what the task does with the line it read
HandleLine(kind, i, ackok) ==
    CASE kind = "pair" -> IF ackok THEN PairAck ELSE <<<<"ack_err", 0>>>>
      [] kind = "data" -> <<<<"dispatch", i>>>>
      [] OTHER -> <<<<"drop", i>>>>

\* The peer writes a line, in one segment or the first of two.
lp_peer_send(kind, part) ==
    /\ Len(lp_lines) < MaxLines
    /\ lp_env.half = 0 /\ ~lp_env.eof
    /\ lp_lines' = Append(lp_lines, kind)
    /\ lp_net' = Append(lp_net, <<part, Len(lp_lines) + 1>>)
    /\ lp_env' = [lp_env EXCEPT !.half = IF part = "head" THEN Len(lp_lines) + 1 ELSE 0]
    /\ UNCHANGED <<beside_lp, lp_pc, lp_line, lp_chan, lp_nout, lp_log>>

\* The rest of a line, up to and including its 0x0A, arrives.
lp_peer_tail ==
    /\ lp_env.half # 0
    /\ lp_net' = Append(lp_net, <<"tail", lp_env.half>>)
    /\ lp_env' = [lp_env EXCEPT !.half = 0]
    /\ UNCHANGED <<beside_lp, lp_pc, lp_lines, lp_line, lp_chan, lp_nout, lp_log>>

\* The peer closes the connection.
lp_peer_close ==
    /\ lp_env.half = 0 /\ ~lp_env.eof
    /\ lp_net' = Append(lp_net, <<"eof", 0>>)
    /\ lp_env' = [lp_env EXCEPT !.eof = TRUE]
    /\ UNCHANGED <<beside_lp, lp_pc, lp_lines, lp_line, lp_chan, lp_nout, lp_log>>

\* A producer queues a packet; the Device Manager may drop the sender.
lp_enqueue ==
    /\ lp_nout < MaxOut
    /\ ~lp_env.closed
    /\ lp_nout' = lp_nout + 1
    /\ lp_chan' = Append(lp_chan, lp_nout + 1)
    /\ UNCHANGED <<beside_lp, lp_pc, lp_env, lp_lines, lp_net, lp_line, lp_log>>

lp_close ==
    /\ ~lp_env.closed
    /\ lp_env' = [lp_env EXCEPT !.closed = TRUE]
    /\ UNCHANGED <<beside_lp, lp_pc, lp_lines, lp_net, lp_line, lp_chan, lp_nout, lp_log>>

\* line 391: read_line takes the bytes that are there, finds no 0x0A and
\* stays pending with them in `line`
lp_read_partial ==
    /\ lp_pc = "select"
    /\ lp_net # <<>> /\ Head(lp_net)[1] = "head"
    /\ lp_line' = <<Head(lp_net)[2]>>
    /\ lp_net' = Tail(lp_net)
    /\ UNCHANGED <<beside_lp, lp_pc, lp_env, lp_lines, lp_chan, lp_nout, lp_log>>

\* What read_line returns when the 0x0A of line i arrives: the line, or
\* only its rest when `line` does not hold its beginning.
LineRead(seg) ==
    IF seg[1] = "whole" \/ lp_line = <<seg[2]>>
    THEN [ev |-> "read", kind |-> lp_lines[seg[2]]]
    ELSE [ev |-> "frag", kind |-> "garbage"]

\* (variant: a line that does not parse breaks the loop)
lp_read_line_break(ackok, flushok) ==
    /\ lp_pc = "select"
    /\ lp_net # <<>> /\ Head(lp_net)[1] \in {"whole", "tail"}
    /\ LET i == Head(lp_net)[2]
           r == LineRead(Head(lp_net))
           acked == r.kind # "pair" \/ ackok
       IN /\ acked => ackok
          /\ ~acked => flushok
          /\ lp_log' = lp_log \o <<<<r.ev, i>>>> \o HandleLine(r.kind, i, ackok)
                          \o (IF acked THEN Flush(flushok) ELSE <<>>)
          /\ lp_pc' = IF ~acked THEN "failed"
                      ELSE IF flushok /\ r.kind # "garbage" THEN "select"
                      ELSE "grace"
    /\ lp_net' = Tail(lp_net)
    /\ lp_line' = <<>>
    /\ UNCHANGED <<beside_lp, lp_env, lp_lines, lp_chan, lp_nout>>

\* lines 391-430: read_line returns Ok(n), n > 0; the match on the parsed
\* packet; the flush.  A failed write of the pair-ACK returns through `?`.
lp_read_line(ackok, flushok) ==
    /\ lp_pc = "select"
    /\ lp_net # <<>> /\ Head(lp_net)[1] \in {"whole", "tail"}
    /\ LET i == Head(lp_net)[2]
           r == LineRead(Head(lp_net))
           acked == r.kind # "pair" \/ ackok
       IN /\ acked => ackok
          /\ ~acked => flushok
          /\ lp_log' = lp_log \o <<<<r.ev, i>>>> \o HandleLine(r.kind, i, ackok)
                          \o (IF acked THEN Flush(flushok) ELSE <<>>)
          /\ lp_pc' = IF ~acked THEN "failed"
                      ELSE IF flushok THEN "select" ELSE "grace"
    /\ lp_net' = Tail(lp_net)
    /\ lp_line' = <<>>
    /\ UNCHANGED <<beside_lp, lp_env, lp_lines, lp_chan, lp_nout>>

\* lines 394-397: Ok(0)
lp_read_eof ==
    /\ lp_pc = "select"
    /\ lp_net # <<>> /\ Head(lp_net)[1] = "eof"
    /\ lp_log' = Append(lp_log, <<"eof", 0>>)
    /\ lp_pc' = "grace"
    /\ lp_line' = <<>>
    /\ UNCHANGED <<beside_lp, lp_env, lp_lines, lp_net, lp_chan, lp_nout>>

\* lines 398-401: Err
lp_read_err ==
    /\ lp_pc = "select"
    /\ lp_log' = Append(lp_log, <<"read_err", 0>>)
    /\ lp_pc' = "grace"
    /\ lp_line' = <<>>
    /\ UNCHANGED <<beside_lp, lp_env, lp_lines, lp_net, lp_chan, lp_nout>>

SendResults == {"ok", "write_none", "write_part", "flush_err"}

\* lines 276-285 for packet j: the frame goes out whole, or write_all fails
\* with none or some of its bytes written, or the flush fails
SendBytes(j, res) ==
    CASE res = "write_none" -> <<<<"write_err", j>>>>
      [] res = "write_part" -> <<<<"json", j>>, <<"write_err", j>>>>
      [] res = "flush_err" -> Frame(j) \o Flush(FALSE)
      [] OTHER -> Frame(j)

\* lines 378-384 and 427: packet_rx.recv() yields packet j; send_packet;
\* the flush.  The pending read_line is dropped with its `line`.
lp_recv_packet(res, flushok) ==
    /\ lp_pc = "select"
    /\ lp_chan # <<>>
    /\ res # "ok" => flushok
    /\ lp_log' = lp_log \o <<<<"deq", Head(lp_chan)>>>> \o SendBytes(Head(lp_chan), res)
                    \o (IF res = "ok" THEN Flush(flushok) ELSE <<>>)
    /\ lp_chan' = Tail(lp_chan)
    /\ lp_pc' = IF res = "ok" /\ flushok THEN "select" ELSE "grace"
    /\ lp_line' = <<>>
    /\ UNCHANGED <<beside_lp, lp_env, lp_lines, lp_net, lp_nout>>

\* lines 385-388: the channel is closed and empty
lp_recv_none ==
    /\ lp_pc = "select"
    /\ lp_chan = <<>> /\ lp_env.closed
    /\ lp_log' = Append(lp_log, <<"closed", 0>>)
    /\ lp_pc' = "grace"
    /\ lp_line' = <<>>
    /\ UNCHANGED <<beside_lp, lp_env, lp_lines, lp_net, lp_chan, lp_nout>>

LpPeer ==
    \/ \E k \in LineKinds, part \in {"whole", "head"} : lp_peer_send(k, part)
    \/ lp_peer_tail
    \/ lp_peer_close

LpProducer == lp_enqueue \/ lp_close

LpTask ==
    \/ lp_read_partial
    \/ \E a, f \in BOOLEAN : lp_read_line(a, f)
    \/ lp_read_eof
    \/ lp_read_err
    \/ \E r \in SendResults, f \in BOOLEAN : lp_recv_packet(r, f)
    \/ lp_recv_none

NextLoop == LpPeer \/ LpProducer \/ LpTask

SpecLoop == Init /\ [][NextLoop]_vars

(***************************************************************************)
(* event_handler (lines 463-493) with a clock.  ev_log is its trace: the   *)
(* ticks of the clock, the events received, the events broadcast.          *)
(***************************************************************************)
Events == {"ClipboardUpdated", "PowerStatusUpdated"}

\* line 487: Duration::from_millis(100)
FlushDelay == 100
\* the step of the clock, in ms
TickMs == 50

Count(tag) == Cardinality({k \in 1 .. Len(ev_log) : ev_log[k][1] = tag})

\* Time passes.  The sleep of line 487 belongs to the iteration: it counts
\* from the last time the loop came round with an event stored.
ev_tick ==
    /\ Count("tick") < MaxTicks
    /\ ev_timer' = IF ev_pc = "run" /\ last_message # None /\ ev_timer < FlushDelay
                   THEN ev_timer + TickMs ELSE ev_timer
    /\ ev_log' = Append(ev_log, <<"tick", None>>)
    /\ UNCHANGED <<beside_ev, ev_pc, last_message>>

\* (variant: no comparison with the stored event)
ev_recv_nodedup(e) ==
    /\ ev_pc = "run"
    /\ Count("recv") < MaxEvents
    /\ ev_log' = ev_log \o <<<<"recv", e>>>>
                    \o (IF last_message # None THEN <<<<"bcast", last_message>>>> ELSE <<>>)
    /\ last_message' = e
    /\ ev_timer' = 0
    /\ UNCHANGED <<beside_ev, ev_pc>>

\* lines 468-482: rx.recv() yields Some(e)
ev_recv(e) ==
    /\ ev_pc = "run"
    /\ Count("recv") < MaxEvents
    /\ IF last_message = e
       THEN /\ ev_log' = Append(ev_log, <<"recv", e>>)
            /\ UNCHANGED last_message
       ELSE /\ ev_log' = ev_log \o <<<<"recv", e>>>>
                            \o (IF last_message # None
                                THEN <<<<"bcast", last_message>>>> ELSE <<>>)
            /\ last_message' = e
    /\ ev_timer' = 0
    /\ UNCHANGED <<beside_ev, ev_pc>>

\* lines 483-485: rx.recv() yields None, the handler returns
ev_closed ==
    /\ ev_pc = "run"
    /\ ev_pc' = "exited"
    /\ ev_log' = Append(ev_log, <<"closed", None>>)
    /\ UNCHANGED <<beside_ev, last_message, ev_timer>>

\* (variant: the timeout broadcasts the stored event and keeps it)
ev_timeout_keep ==
    /\ ev_pc = "run"
    /\ last_message # None
    /\ ev_timer >= FlushDelay
    /\ ev_log' = Append(ev_log, <<"bcast", last_message>>)
    /\ ev_timer' = 0
    /\ Count("bcast") < MaxEvents
    /\ UNCHANGED <<beside_ev, ev_pc, last_message>>

\* lines 487-490: the sleep is over and an event is stored
ev_timeout ==
    /\ ev_pc = "run"
    /\ last_message # None
    /\ ev_timer >= FlushDelay
    /\ ev_log' = Append(ev_log, <<"bcast", last_message>>)
    /\ last_message' = None
    /\ ev_timer' = 0
    /\ UNCHANGED <<beside_ev, ev_pc>>

event_handler ==
    \/ \E e \in Events : ev_recv(e)
    \/ ev_closed
    \/ ev_timeout

NextEvent == ev_tick \/ event_handler

SpecEvent == Init /\ [][NextEvent]_vars

(***************************************************************************)
(* send_packet, open_payload_tcp_server and serve_payload (lines 190-286): *)
(* one session sending packets with and without payload, the sub-servers   *)
(* it spawns, and the peers that fetch the payloads.                       *)
(***************************************************************************)
\* the hosts of the model
PayloadHosts ==
    [busy_to : {PAYLOAD_MIN_PORT - 1, PAYLOAD_MIN_PORT, MAX_U16 - 1, MAX_U16},
     low : {{}, {PAYLOAD_MIN_PORT - 1}},
     build : {"debug", "release"}]

InitPayload ==
    /\ InitMain /\ HsStart(1) /\ LpStart /\ EvStart /\ TpStart({})
    /\ \E h \in PayloadHosts : PlStart(h.busy_to, h.low, h.build)

\* ports on which a sub-server of this process is listening
OwnPorts == {pl_srv[k].port : k \in {i \in 1 .. Len(pl_srv) : pl_srv[i].pc = "accept"}}

\* TcpListener::bind((UNSPECIFIED, p)) succeeds (line 198)
CanBind(p) ==
    /\ p \notin OwnPorts
    /\ IF p >= PAYLOAD_MIN_PORT THEN p > pl_env.busy_to ELSE p \in pl_env.low

\* The port the loop comes to after p, the ports that the host refuses
\* taken in one stride.
Stride(p) ==
    IF p + 1 < PAYLOAD_MIN_PORT
    THEN IF \E q \in pl_env.low : q > p
         THEN CHOOSE q \in pl_env.low : q > p /\ \A r \in pl_env.low : r > p => q <= r
         ELSE PAYLOAD_MIN_PORT
    ELSE IF p + 1 <= pl_env.busy_to THEN pl_env.busy_to + 1
    ELSE p + 1

NoBind == -1

\* lines 196-202: the first port from p to last that binds, or NoBind
RECURSIVE Scan(_, _)
Scan(p, last) ==
    IF p > last THEN NoBind
    ELSE IF CanBind(p) THEN p
    ELSE Scan(Stride(p), last)

\* open_payload_tcp_server (lines 191-205).  `for port in MIN_PORT..` has
\* no end: at the largest u16 the counter overflows, which panics before
\* 65535 is tried in a build with overflow checks and wraps to 0 in one
\* without; a scan that finds nothing goes round for ever.  The Err of
\* line 204 is never returned.
open_payload_tcp_server ==
    LET high == Scan(PAYLOAD_MIN_PORT,
                     IF pl_env.build = "debug" THEN MAX_U16 - 1 ELSE MAX_U16)
        wrapped == Scan(0, PAYLOAD_MIN_PORT - 1)
    IN IF high # NoBind THEN [res |-> "ok", port |-> high]
       ELSE IF pl_env.build = "debug" THEN [res |-> "panic", port |-> NoBind]
       ELSE IF wrapped # NoBind THEN [res |-> "ok", port |-> wrapped]
       ELSE [res |-> "hang", port |-> NoBind]

\* an absent Option in a packet: no payload, no payloadSize, no port
NoPayload == -1

\* an outbound packet: payload is NoPayload or the length of the payload
OutPackets == [payload : {NoPayload} \cup (0 .. MaxLen)]

\* (variant: the annotation names the first payload port)
Annotated_minport(id, pkt, r) ==
    IF pkt.payload # NoPayload /\ r.res = "ok"
    THEN [id |-> id, payloadSize |-> pkt.payload, payloadTransferInfo |-> PAYLOAD_MIN_PORT]
    ELSE [id |-> id, payloadSize |-> NoPayload, payloadTransferInfo |-> NoPayload]

\* lines 254-273: the packet as it is serialised; set_payload puts in both
\* fields, and only in the Ok arm
Annotated(id, pkt, r) ==
    IF pkt.payload # NoPayload /\ r.res = "ok"
    THEN [id |-> id, payloadSize |-> pkt.payload, payloadTransferInfo |-> r.port]
    ELSE [id |-> id, payloadSize |-> NoPayload, payloadTransferInfo |-> NoPayload]

\* lines 265-268: the serve_payload task spawned for packet id
Spawned(id, pkt, r) ==
    IF pkt.payload # NoPayload /\ r.res = "ok"
    THEN <<[pc |-> "accept", port |-> r.port, data |-> id, len |-> pkt.payload,
            age |-> 0]>>
    ELSE <<>>

\* send_packet (lines 249-286) for the next packet of the session: the
\* scan, the annotation, the spawn, write_all and flush.  A panic or an
\* endless scan ends the session task inside the call.
send_packet(pkt, wres) ==
    /\ pl_pc = "loop"
    /\ Len(pl_calls) < MaxPackets
    /\ LET id == Len(pl_calls) + 1
           r == IF pkt.payload = NoPayload THEN [res |-> "none", port |-> NoBind]
                ELSE open_payload_tcp_server
           returns == r.res \in {"none", "ok", "err"}
       IN /\ ~returns => wres = "ok"
          /\ pl_calls' = Append(pl_calls,
                [id |-> id, payload |-> pkt.payload,
                 free |-> Scan(PAYLOAD_MIN_PORT, MAX_U16) # NoBind,
                 first |-> Scan(PAYLOAD_MIN_PORT, MAX_U16),
                 open |-> r.res,
                 result |-> IF returns THEN wres ELSE r.res])
          /\ pl_srv' = pl_srv \o Spawned(id, pkt, r)
          /\ pl_wire' = IF returns /\ wres # "write_err"
                        THEN Append(pl_wire, Annotated(id, pkt, r)) ELSE pl_wire
          /\ pl_pc' = CASE r.res = "panic" -> "panicked"
                        [] r.res = "hang" -> "scanning"
                        [] wres # "ok" -> "grace"
                        [] OTHER -> "loop"
    /\ UNCHANGED <<beside_pl, pl_env, pl_peers>>

\* the session ends for a reason of its own
pl_session_end ==
    /\ pl_pc = "loop"
    /\ pl_pc' = "grace"
    /\ UNCHANGED <<beside_pl, pl_env, pl_wire, pl_calls, pl_srv, pl_peers>>

\* (variant: the sub-server serves one connection and returns)
serve_accept_once(k) ==
    /\ k \in 1 .. Len(pl_srv)
    /\ pl_srv[k].pc = "accept"
    /\ Len(pl_peers) < MaxPeers
    /\ pl_peers' = Append(pl_peers, [srv |-> k, pc |-> "tls", got |-> <<>>])
    /\ pl_srv' = [pl_srv EXCEPT ![k].pc = "closed"]
    /\ UNCHANGED <<beside_pl, pl_env, pl_pc, pl_wire, pl_calls>>

\* lines 211-224: accept() yields a connection, a task is spawned for it
serve_accept(k) ==
    /\ k \in 1 .. Len(pl_srv)
    /\ pl_srv[k].pc = "accept"
    /\ Len(pl_peers) < MaxPeers
    /\ pl_peers' = Append(pl_peers, [srv |-> k, pc |-> "tls", got |-> <<>>])
    /\ UNCHANGED <<beside_pl, pl_env, pl_pc, pl_wire, pl_calls, pl_srv>>

\* lines 213-216: accept() fails, the loop breaks and the task ends with
\* its listener
serve_accept_err(k) ==
    /\ k \in 1 .. Len(pl_srv)
    /\ pl_srv[k].pc = "accept"
    /\ pl_srv' = [pl_srv EXCEPT ![k].pc = "closed"]
    /\ UNCHANGED <<beside_pl, pl_env, pl_pc, pl_wire, pl_calls, pl_peers>>

\* (variant: the timeout is that of a task of the session, cancelled with it)
serve_timeout_session(k) ==
    /\ k \in 1 .. Len(pl_srv)
    /\ pl_srv[k].pc = "accept"
    /\ pl_srv[k].age >= PAYLOAD_TIMEOUT
    /\ pl_pc = "loop"
    /\ pl_srv' = [pl_srv EXCEPT ![k].pc = "timed_out"]
    /\ UNCHANGED <<beside_pl, pl_env, pl_pc, pl_wire, pl_calls, pl_peers>>

\* lines 244-246: the 60 s are over while the task waits in accept(); the
\* task is dropped, and the listener it owns with it
serve_timeout(k) ==
    /\ k \in 1 .. Len(pl_srv)
    /\ pl_srv[k].pc = "accept"
    /\ pl_srv[k].age >= PAYLOAD_TIMEOUT
    /\ pl_srv' = [pl_srv EXCEPT ![k].pc = "timed_out"]
    /\ UNCHANGED <<beside_pl, pl_env, pl_pc, pl_wire, pl_calls, pl_peers>>

\* the task ends and the listener is dropped
serve_end(k) ==
    \/ serve_accept_err(k)
    \/ serve_timeout(k)

\* seconds of one step of the clock
TickS == 60

\* The clock of the timeouts of line 244 advances for every sub-server
\* that is still accepting; a timeout that is due fires at any time from
\* then on.
pl_tick ==
    /\ \E k \in 1 .. Len(pl_srv) :
          pl_srv[k].pc = "accept" /\ pl_srv[k].age < PAYLOAD_TIMEOUT
    /\ pl_srv' = [k \in 1 .. Len(pl_srv) |->
                    IF pl_srv[k].pc = "accept" /\ pl_srv[k].age < PAYLOAD_TIMEOUT
                    THEN [pl_srv[k] EXCEPT !.age = @ + TickS]
                    ELSE pl_srv[k]]
    /\ UNCHANGED <<beside_pl, pl_env, pl_pc, pl_wire, pl_calls, pl_peers>>

\* lines 225-231: the TLS accept of connection c
peer_tls(c, ok) ==
    /\ c \in 1 .. Len(pl_peers)
    /\ pl_peers[c].pc = "tls"
    /\ pl_peers' = [pl_peers EXCEPT ![c].pc = IF ok THEN "write" ELSE "failed"]
    /\ UNCHANGED <<beside_pl, pl_env, pl_pc, pl_wire, pl_calls, pl_srv>>

\* lines 233-236: write_all(&data); n bytes reached the peer before an error
peer_write(c, ok, n) ==
    /\ c \in 1 .. Len(pl_peers)
    /\ pl_peers[c].pc = "write"
    /\ n \in 0 .. pl_srv[pl_peers[c].srv].len
    /\ ok => n = pl_srv[pl_peers[c].srv].len
    /\ pl_peers' = [pl_peers EXCEPT ![c] =
                      [@ EXCEPT !.pc = IF ok THEN "flush" ELSE "failed",
                                !.got = <<pl_srv[pl_peers[c].srv].data, n>>]]
    /\ UNCHANGED <<beside_pl, pl_env, pl_pc, pl_wire, pl_calls, pl_srv>>

\* lines 238-240: flush, then the stream is dropped
peer_flush(c, ok) ==
    /\ c \in 1 .. Len(pl_peers)
    /\ pl_peers[c].pc = "flush"
    /\ pl_peers' = [pl_peers EXCEPT ![c].pc = IF ok THEN "done" ELSE "failed"]
    /\ UNCHANGED <<beside_pl, pl_env, pl_pc, pl_wire, pl_calls, pl_srv>>

serve_payload(k) ==
    \/ serve_accept(k)
    \/ serve_end(k)

PeerTask(c) ==
    \/ \E ok \in BOOLEAN : peer_tls(c, ok)
    \/ \E ok \in BOOLEAN, n \in 0 .. MaxLen : peer_write(c, ok, n)
    \/ \E ok \in BOOLEAN : peer_flush(c, ok)

\* The session and its sub-servers, on every host of the model.
NextSend ==
    \/ \E pkt \in OutPackets, w \in {"ok", "write_err", "flush_err"} : send_packet(pkt, w)
    \/ pl_session_end
    \/ pl_tick
    \/ \E k \in 1 .. MaxPackets : serve_end(k)

SpecSend == InitPayload /\ [][NextSend]_vars

\* One sub-server and the peers that connect to it, on a host with free
\* payload ports: the session sends one packet, which has a payload.
NextPayload ==
    \/ \E pkt \in OutPackets :
          pkt.payload # NoPayload /\ pl_calls = <<>> /\ send_packet(pkt, "ok")
    \/ pl_tick
    \/ \E k \in 1 .. MaxPackets : serve_payload(k)
    \/ \E c \in 1 .. MaxPeers : PeerTask(c)

SpecPayload == Init /\ [][NextPayload]_vars

\* The same with a session that can end while its sub-server runs; the
\* clock goes on and a timeout that is due fires.
NextTimeout == NextPayload \/ pl_session_end

SpecTimeout == Init /\ [][NextTimeout]_vars

FairTimeout ==
    /\ SpecTimeout
    /\ WF_vars(pl_tick)
    /\ \A k \in 1 .. MaxPackets : WF_vars(serve_timeout(k))

(***************************************************************************)
(* The start of the process: server_main binds the main listener with      *)
(* open_tcp_server (lines 173-188, 502) and hands its port to udp_server   *)
(* (line 541); then the identity packets the process sends, the broadcast  *)
(* one of udp_server (lines 85-97) and the one a dialler writes before TLS *)
(* (lines 330-338).                                                        *)
(***************************************************************************)
\* ports that are taken apart from a run of taken ports from 1716 up
HolePorts == {MIN_PORT, MIN_PORT + 2, MAX_PORT - 1, MAX_PORT, MAX_PORT + 1}

\* the hosts of the model: what is taken before the process starts
BusySets ==
    {(MIN_PORT .. b) \cup X : b \in MIN_PORT - 1 .. MAX_PORT, X \in SUBSET HolePorts}

InitStartup ==
    /\ InitMain /\ HsStart(1) /\ LpStart /\ EvStart
    /\ PlStart(PAYLOAD_MIN_PORT - 1, {}, "debug")
    /\ \E busy \in BusySets : TpStart(busy)

\* (variant: the range of the loop excludes MAX_PORT)
tp_bind_err_exclusive ==
    /\ tp_pc = "scan"
    /\ tp_port \in tp_busy
    /\ tp_last' = "AddrInUse"
    /\ IF tp_port + 1 < MAX_PORT
       THEN tp_port' = tp_port + 1 /\ tp_pc' = "scan"
       ELSE tp_port' = tp_port /\ tp_pc' = "failed"
    /\ UNCHANGED <<beside_tp, ts_pc, tp_busy, id_cast, id_hello>>

\* lines 181-182: bind succeeds on `port`; open_tcp_server returns the
\* listener and the port, server_main goes on to spawn its tasks
tp_bind_ok ==
    /\ tp_pc = "scan"
    /\ tp_port \notin tp_busy
    /\ tp_pc' = "serving"
    /\ UNCHANGED <<beside_tp, ts_pc, tp_busy, tp_port, tp_last, id_cast, id_hello>>

\* line 183: bind fails on `port`, the error is kept and the loop goes to
\* the next port of MIN_PORT..=MAX_PORT; after MAX_PORT line 187 unwraps
\* last_error and the `?` of line 502 ends server_main
tp_bind_err ==
    /\ tp_pc = "scan"
    /\ tp_port \in tp_busy
    /\ tp_last' = "AddrInUse"
    /\ IF tp_port < MAX_PORT
       THEN tp_port' = tp_port + 1 /\ tp_pc' = "scan"
       ELSE tp_port' = tp_port /\ tp_pc' = IF tp_last' = None THEN "panicked" ELSE "failed"
    /\ UNCHANGED <<beside_tp, ts_pc, tp_busy, id_cast, id_hello>>

open_tcp_server == tp_bind_ok \/ tp_bind_err

\* The port on which the listener of tcp_server accepts: tcp_server owns
\* the listener and drops it when it returns.
Listening == IF tp_pc = "serving" /\ ts_pc = "accept" THEN tp_port ELSE NoPort

\* NetworkPacket::new_identity(tcp_port, ..): the identity of this host
\* with the tcpPort it is given, which a None leaves out.
new_identity(tcp_port, id) ==
    [typ |-> PACKET_TYPE_IDENTITY, id |-> id, deviceId |-> LocalUuid,
     tcpPort |-> tcp_port]

\* lines 85-97: udp_server made its packet from the tcp_port of line 502;
\* a round with no active device renews the id and broadcasts the packet
id_broadcast ==
    /\ tp_pc = "serving"
    /\ Len(id_cast) < MaxIdent
    /\ id_cast' = Append(id_cast,
          [pkt |-> new_identity(tp_port, Len(id_cast) + 1), listener |-> Listening])
    /\ UNCHANGED <<beside_tp, ts_pc, tp_busy, tp_pc, tp_port, tp_last, id_hello>>

\* lines 330-338: handle_conn as Role::Client writes new_identity(None, ..)
\* and 0x0A on the connection it dialled
id_dial ==
    /\ tp_pc = "serving"
    /\ Len(id_hello) < MaxIdent
    /\ id_hello' = Append(id_hello,
          [pkt |-> new_identity(NoPort, 0), listener |-> Listening])
    /\ UNCHANGED <<beside_tp, ts_pc, tp_busy, tp_pc, tp_port, tp_last, id_cast>>

\* open_tcp_server on every host of the model
SpecOpen == InitStartup /\ [][open_tcp_server]_vars

\* The process from its start: once the listener is bound, tcp_server
\* accepts until an accept fails, udp_server broadcasts, diallers dial.
NextStartup ==
    \/ open_tcp_server
    \/ id_broadcast
    \/ id_dial
    \/ tp_pc = "serving" /\ tcp_server_err

SpecStartup == InitStartup /\ [][NextStartup]_vars

(***************************************************************************)
(* Properties.                                                             *)
(***************************************************************************)
Registered(s) == sess[s].cid # 0
OwnEntry(s) == Entry(sess[s].dev, sess[s].cid)
EntriesOf(d) == {e \in registry : e.device_id = d}

\* C1: in every reachable state, whatever the interleaving of the add and
\* remove calls of the connection tasks, the registry holds at most one
\* entry per deviceId.
C1_OneEntryPerDevice ==
    \A e1, e2 \in registry : e1.device_id = e2.device_id => e1 = e2

\* Two tasks of the same peer are registered at once, the registry has one
\* entry for it.
C1_Witness ==
    \E s, t \in Sessions :
        /\ s # t
        /\ sess[s].dev = sess[t].dev
        /\ sess[s].pc = "loop" /\ sess[t].pc = "loop"
        /\ Cardinality(EntriesOf(sess[s].dev)) = 1

\* C2: the remove of a task deletes the entry of its deviceId only when the
\* stored connectionId is the task's own; otherwise the whole registry is
\* left unchanged.
C2_RemoveGuarded ==
    [][\A s \in Sessions :
          (sess[s].pc = "grace" /\ sess'[s].pc = "done") =>
              IF \E e \in EntriesOf(sess[s].dev) : e.conn_id = sess[s].cid
              THEN registry' = registry \ EntriesOf(sess[s].dev)
              ELSE registry' = registry]_vars

\* A superseded task has finished its teardown and the entry of its
\* successor is still there.
C2_Witness ==
    \E s \in Sessions :
        /\ sess[s].pc = "done"
        /\ \E e \in EntriesOf(sess[s].dev) : e.conn_id # sess[s].cid

\* The task that called add last for deviceId d.
IsLastAdder(s) ==
    /\ Registered(s)
    /\ \A t \in Sessions :
          (Registered(t) /\ sess[t].dev = sess[s].dev) => sess[t].cid <= sess[s].cid

\* C3: when several connections of one peer (a dialled Role::Client one and
\* an accepted Role::Server one) complete their handshakes, the registry
\* holds exactly the entry of the task that called add last, until that
\* task itself removes it; the teardown of an earlier task does not evict it.
C3_LastWriterWins ==
    \A s \in Sessions :
        IsLastAdder(s) =>
            EntriesOf(sess[s].dev) =
                IF sess[s].pc = "done" THEN {} ELSE {OwnEntry(s)}

\* A Client and a Server task of the same peer both registered; the earlier
\* one has finished its teardown and the later one's entry is present.
C3_Witness ==
    \E s, t \in Sessions :
        /\ {sess[s].role, sess[t].role} = {"Client", "Server"}
        /\ sess[s].dev = sess[t].dev
        /\ Registered(s) /\ Registered(t) /\ sess[s].cid < sess[t].cid
        /\ sess[s].pc = "done"
        /\ sess[t].pc = "loop"
        /\ EntriesOf(sess[t].dev) = {OwnEntry(t)}

\* A task in its packet loop whose entry was replaced by a later add.
Superseded(s) == sess[s].pc = "loop" /\ OwnEntry(s) \notin registry

\* C4: when add replaces the entry of a task, the outbound channel of that
\* task is closed, and its packet loop eventually ends through the None of
\* packet_rx.recv(), with no I/O error needed.
C4_SupersededTerminates ==
    /\ [](\A s \in Sessions : Superseded(s) => ~sess[s].open)
    /\ \A s \in Sessions : Superseded(s) ~> (sess[s].pc # "loop")

\* A superseded task left its loop because the channel was closed, while
\* its successor is in its loop.
C4_Witness ==
    \E s, t \in Sessions :
        /\ sess[s].dev = sess[t].dev
        /\ Registered(s) /\ Registered(t) /\ sess[s].cid < sess[t].cid
        /\ sess[s].pc \in {"grace", "done"} /\ sess[s].cause = "closed"
        /\ sess[t].pc = "loop"

\* C5: every task that registered with add calls remove with its own
\* connectionId once its packet loop has ended, whatever ended it: a task
\* that has returned has called remove.
C5_RemoveOnEveryExit ==
    \A s \in Sessions :
        (Registered(s) /\ sess[s].pc \in {"done", "failed"}) => sess[s].pc = "done"

\* A datagram leaves the broadcaster.
Emits == ~sent /\ sent'

\* C6 (as stated): no datagram is emitted in a state where the registry is
\* non-empty.
C6_NoEmitWhileRegistered ==
    [][Emits => registry = {}]_vars

\* C6 (amended): a datagram is emitted only in a round of the broadcaster
\* loop in which active_device_count() returned 0.
C6_EmitOnlyAfterZeroCount ==
    [][Emits => reported = 0]_vars

\* A datagram was emitted after a count of 0, and a device has registered
\* since the count was taken.
C6_Witness == sent /\ reported = 0 /\ registry # {}

\* Every connection task that was spawned has returned.
AllSessionsEnded ==
    /\ nsess >= 1
    /\ \A s \in Sessions : sess[s].pc \in {"idle", "done", "failed"}

\* C7: whenever every peer session has terminated, however it ended, the
\* broadcaster eventually emits an identity datagram again (unless a new
\* connection arrives first or the broadcaster's own socket fails).
C7_DiscoveryResumes ==
    [](AllSessionsEnded => <>(sent \/ ~AllSessionsEnded \/ us_pc = "exited"))

\* The listener has just taken a datagram out of its socket.
ListenerStep == ul_pc = "recv" /\ (ul_dg' # ul_dg \/ ul_pc' # ul_pc \/ ul_last' # ul_last)

\* C8: a datagram whose deviceId is the local uuid causes no dial, no
\* connection task and no change of the registry, whatever its other fields.
C8_SelfSuppression ==
    [][(ListenerStep /\ ul_dg'.device_id = LocalUuid) =>
          (ul_pc' = "recv" /\ UNCHANGED <<registry, sess, nsess>>)]_vars

\* A well-formed identity datagram of the local device, with a port, has
\* been dropped.
C8_Witness ==
    /\ ul_last = "self"
    /\ ul_dg = Datagram("ok", PACKET_TYPE_IDENTITY, LocalUuid, PeerPort)
    /\ ul_pc = "recv"

\* C9: while a session of deviceId d is registered, an identity datagram of
\* d causes no dial and no connection task.
C9_DuplicateSuppression ==
    [][(ListenerStep /\ query_device(registry, ul_dg'.device_id)) =>
          (ul_pc' = "recv" /\ UNCHANGED <<sess, nsess>>)]_vars

\* A well-formed announcement of a registered peer has been dropped.
C9_Witness ==
    /\ ul_last = "duplicate"
    /\ ul_dg.tcp_port = PeerPort
    /\ query_device(registry, ul_dg.device_id)
    /\ ul_pc = "recv"

\* Everything the dialler wrote before its first TLS record.
RECURSIVE PlainPrefix(_)
PlainPrefix(log) ==
    IF log = <<>> \/ Head(log) \notin PlainBytes THEN <<>>
    ELSE <<Head(log)>> \o PlainPrefix(Tail(log))

IdentityLine(n) == [i \in 1 .. n + 1 |-> IF i <= n THEN "b" ELSE "nl"]

\* The order of the handshake steps and the TLS roles.
HsOrder ==
    /\ hs_dial.tls \in {"none", "server"}
    /\ hs_list.tls \in {"none", "client"}
    /\ hs_dial.tls # "none" => hs_log = IdentityLine(hs_idlen)
                               \/ hs_log = Append(IdentityLine(hs_idlen), "ServerHello")
    /\ PlainPrefix(hs_log) = hs_log \/ PlainPrefix(hs_log) = IdentityLine(hs_idlen)
    /\ hs_list.tls # "none" => hs_list.buf = hs_idlen
    /\ hs_list.pc \in {"tls_connect", "tls_wait", "add", "loop"} =>
          hs_list.buf = hs_idlen
    /\ hs_dial.pc \in {"add", "loop"} => hs_dial.done /\ hs_dial.tls = "server"
    /\ hs_list.pc \in {"add", "loop"} => hs_list.done /\ hs_list.tls = "client"

HsBothInLoop == hs_dial.pc = "loop" /\ hs_list.pc = "loop"
HsFailed == hs_dial.pc = "failed" \/ hs_list.pc = "failed"

\* C10: the dialler writes its identity and 0x0A and only then runs TLS as
\* server; the listener reads up to 0x0A and only then runs TLS as client;
\* add follows the completed TLS handshake; and, short of an I/O or TLS
\* error, the pair does not deadlock: both reach the packet loop.
C10_HandshakeOrder ==
    /\ []HsOrder
    /\ <>(HsBothInLoop \/ HsFailed)

\* Both ends went through the handshake and are in their packet loops.
C10_Witness ==
    /\ HsBothInLoop
    /\ hs_dial.tls = "server" /\ hs_list.tls = "client"
    /\ hs_log = Append(IdentityLine(hs_idlen), "ServerHello")

\* A handle_conn task that left before line 369: no connectionId was drawn.
FailedBeforeAdd(s) == sess[s].pc = "failed" /\ sess[s].cid = 0

\* C11: a connection that fails before registration (wrong packet type,
\* malformed identity, socket error on the identity, TLS failure) calls
\* neither add_device nor remove_device: the step that fails leaves the
\* registry and the connectionId counter as they were, the task holds no
\* connectionId, and it takes no further step.
C11_FailureBeforeAddKeepsRegistry ==
    [][\A s \in Sessions :
          /\ (sess[s].pc = "handshake" /\ sess'[s].pc = "failed") =>
                /\ registry' = registry
                /\ next_conn' = next_conn
                /\ sess'[s].cid = 0
          /\ FailedBeforeAdd(s) => sess'[s] = sess[s]]_vars

\* A dialled connection failed its handshake while another connection of
\* the same device is registered.
C11_Witness ==
    \E s \in Sessions :
        /\ FailedBeforeAdd(s)
        /\ sess[s].role = "Client"
        /\ EntriesOf(sess[s].dev) # {}

\* Positions of the trace of the packet loop, and what stands there.
LogAt(k) == IF k \in 1 .. Len(lp_log) THEN lp_log[k] ELSE <<"end", 0>>
IsPairRead(k) == LogAt(k)[1] = "read" /\ lp_lines[LogAt(k)[2]] = "pair"
IsRead(k) == LogAt(k)[1] \in {"read", "frag"}

LogIds(tag) ==
    LET at(e) == e[1] = tag /\ e[2] # 0
        sel == SelectSeq(lp_log, at)
    IN [k \in 1 .. Len(sel) |-> sel[k][2]]

IsPrefix(a, b) == Len(a) <= Len(b) /\ a = SubSeq(b, 1, Len(a))

Increasing(a) == \A k \in 1 .. Len(a) - 1 : a[k] < a[k + 1]

\* C13: the outbound packets go out in the order they were dequeued, each
\* as the frame JSON, 0x0A written right after its dequeue; every JSON on
\* the wire (a packet's or a pair-ACK's) is followed by its own 0x0A before
\* anything else is written, unless the write failed and the session left
\* the loop; every 0x0A ends a JSON; inbound packets are dispatched in the
\* order in which their lines arrived, each right after it was read.
C13_OrderedFrames ==
    /\ LogIds("deq") = [k \in 1 .. Len(LogIds("deq")) |-> k]
    /\ IsPrefix(LogIds("json"), LogIds("deq"))
    /\ \A k \in 1 .. Len(lp_log) :
          /\ LogAt(k)[1] = "deq" =>
                LogAt(k + 1) \in {<<"json", LogAt(k)[2]>>, <<"write_err", LogAt(k)[2]>>}
          /\ LogAt(k)[1] = "json" =>
                \/ LogAt(k + 1) = <<"nl", 0>>
                \/ /\ LogAt(k + 1) = <<"write_err", LogAt(k)[2]>>
                   /\ k + 1 = Len(lp_log)
                   /\ lp_pc # "select"
          /\ LogAt(k)[1] = "nl" => LogAt(k - 1)[1] = "json"
          /\ LogAt(k)[1] = "dispatch" => LogAt(k - 1) = <<"read", LogAt(k)[2]>>
    /\ Increasing(LogIds("dispatch"))
    /\ Increasing(LogIds("read"))

\* Two outbound packets went out with a pair-ACK between them, and an
\* inbound packet was dispatched.
C13_Witness ==
    /\ LogIds("json") = <<1, 2>>
    /\ Len(LogIds("dispatch")) >= 1
    /\ \E a, b, c \in 1 .. Len(lp_log) :
          /\ a < b /\ b < c
          /\ LogAt(a) = <<"json", 1>> /\ LogAt(b) = <<"json", 0>>
          /\ LogAt(c) = <<"json", 2>>

\* The task reads line i, which does not parse (or only the rest of it).
ReadsGarbage(i) ==
    /\ lp_pc = "select"
    /\ lp_net # <<>>
    /\ Head(lp_net)[1] \in {"whole", "tail"}
    /\ Head(lp_net)[2] = i
    /\ LineRead(Head(lp_net)).kind = "garbage"
    /\ lp_net' = Tail(lp_net)

SessionEnds(s) ==
    /\ sess[s].pc \in {"handshake", "loop", "grace"}
    /\ sess'[s].pc \in {"failed", "grace", "done"}
    /\ sess'[s].pc # sess[s].pc

\* C15: the end of one session, by an I/O error, a TLS handshake failure or
\* EOF, is that session's alone: no other task changes, no registry entry of
\* another deviceId changes, and the TCP accept loop and the UDP listener
\* stay where they were.
C15_SessionIsolation ==
    [][\A s \in Sessions :
          SessionEnds(s) =>
             /\ \A t \in Sessions \ {s} : sess'[t] = sess[t]
             /\ \A e \in registry \cup registry' :
                   e.device_id # sess[s].dev => (e \in registry <=> e \in registry')
             /\ ts_pc' = ts_pc
             /\ UNCHANGED <<nsess, listen_vars>>]_vars

\* A session ended on an I/O error and was torn down while the session of
\* another device is registered and the accept loop is running.
C15_Witness ==
    \E s, t \in Sessions :
        /\ sess[s].pc = "done" /\ sess[s].cause = "io"
        /\ sess[t].pc = "loop" /\ OwnEntry(t) \in registry
        /\ sess[t].dev # sess[s].dev
        /\ ts_pc = "accept"

\* What a step appends to the trace of event_handler.
EvAdded == SubSeq(ev_log', Len(ev_log) + 1, Len(ev_log'))

\* C16: every step of event_handler is a transition of the machine over
\* Empty (None) and Holding(e): recv(e) in Empty stores e and broadcasts
\* nothing; recv(e) in Holding(e) changes nothing and broadcasts nothing;
\* recv(e') in Holding(e), e' # e, broadcasts e and stores e'; the timeout,
\* 100 ms after the loop came round in Holding(e), broadcasts e and empties
\* the store; no broadcast happens in Empty.  (The end of the event channel
\* makes the handler return.)
C16_TwoStateMachine ==
    [][(ev_log' # ev_log /\ EvAdded[1][1] # "tick") =>
          /\ ev_pc = "run"
          /\ \/ /\ EvAdded = <<<<"closed", None>>>>
                /\ ev_pc' = "exited" /\ last_message' = last_message
             \/ \E e \in Events :
                   /\ EvAdded[1] = <<"recv", e>>
                   /\ last_message' = e
                   /\ ev_pc' = "run"
                   /\ IF last_message \in {None, e}
                      THEN EvAdded = <<<<"recv", e>>>>
                      ELSE EvAdded = <<<<"recv", e>>, <<"bcast", last_message>>>>
             \/ /\ last_message # None
                /\ ev_timer >= FlushDelay
                /\ EvAdded = <<<<"bcast", last_message>>>>
                /\ last_message' = None
                /\ ev_pc' = "run"]_vars

\* All four transitions in one run: store, ignore, replace, time out.
C16_Witness ==
    \E e, f \in Events :
        /\ e # f
        /\ Len(ev_log) = 7
        /\ SubSeq(ev_log, 1, 4) =
              <<<<"recv", e>>, <<"recv", e>>, <<"recv", f>>, <<"bcast", e>>>>
        /\ ev_log[7] = <<"bcast", f>>
        /\ last_message = None
        /\ ev_pc = "run"

EvAt(k) == IF k \in 1 .. Len(ev_log) THEN ev_log[k] ELSE <<"end", None>>
EvPos == 1 .. Len(ev_log)
IsRecv(k) == EvAt(k)[1] = "recv"
\* i and j are receptions with none between them
NextRecv(i, j) ==
    /\ i < j /\ IsRecv(i) /\ IsRecv(j)
    /\ \A k \in i + 1 .. j - 1 : ~IsRecv(k)
\* i is the last reception so far
LastRecv(i) == IsRecv(i) /\ \A k \in i + 1 .. Len(ev_log) : ~IsRecv(k)
\* ms between two positions of the trace
Elapsed(i, j) == TickMs * Cardinality({k \in i .. j : EvAt(k)[1] = "tick"})
\* broadcasts of e at the positions K
Bcasts(e, K) == Cardinality({k \in K : EvAt(k) = <<"bcast", e>>})

\* Once a run of e is over (another event came, or the store is empty), e
\* was broadcast once since the last reception of the run.
OneBroadcastAfterRun ==
    \A i \in EvPos : IsRecv(i) =>
        LET e == EvAt(i)[2] IN
        /\ \A j \in EvPos : (NextRecv(i, j) /\ EvAt(j)[2] # e) =>
              Bcasts(e, i + 1 .. j + 1) = 1
        /\ (LastRecv(i) /\ last_message = None) =>
              Bcasts(e, i + 1 .. Len(ev_log)) = 1
        /\ (LastRecv(i) /\ last_message = e) =>
              Bcasts(e, i + 1 .. Len(ev_log)) = 0

\* C17 as stated: whatever the time between them, successive receptions of
\* the same event have no broadcast of it between them, so that a run of N
\* identical events is broadcast once; and every broadcast comes 100 ms or
\* more after the last reception.
C17_OneBroadcastPerRun ==
    /\ \A i, j \in EvPos :
          (NextRecv(i, j) /\ EvAt(i)[2] = EvAt(j)[2]) =>
             Bcasts(EvAt(i)[2], i + 1 .. j + 1) = 0
    /\ OneBroadcastAfterRun
    /\ \A k \in EvPos : EvAt(k)[1] = "bcast" =>
          \E r \in 1 .. k - 1 :
             /\ IsRecv(r) /\ \A m \in r + 1 .. k - 1 : ~IsRecv(m)
             /\ Elapsed(r, k) >= FlushDelay

\* C17, amended: successive receptions of the same event less than 100 ms
\* apart have no broadcast of it between them; once the run is over the
\* event was broadcast exactly once after its last reception; and every
\* broadcast comes either 100 ms or more after the last reception, which
\* was of the event broadcast, or right upon the reception of a different
\* event.
C17_OneBroadcastPerBurst ==
    /\ \A i, j \in EvPos :
          (/\ NextRecv(i, j) /\ EvAt(i)[2] = EvAt(j)[2]
           /\ Elapsed(i, j) < FlushDelay) =>
             Bcasts(EvAt(i)[2], i + 1 .. j + 1) = 0
    /\ OneBroadcastAfterRun
    /\ \A k \in EvPos : EvAt(k)[1] = "bcast" =>
          \E r \in 1 .. k - 1 :
             /\ IsRecv(r) /\ \A m \in r + 1 .. k - 1 : ~IsRecv(m)
             /\ \/ EvAt(r)[2] = EvAt(k)[2] /\ Elapsed(r, k) >= FlushDelay
                \/ EvAt(r)[2] # EvAt(k)[2] /\ k = r + 1

\* Three identical events less than 100 ms apart, then 100 ms of idle, then
\* the one broadcast.
C17_Witness ==
    \E e \in Events :
        /\ Len(ev_log) = 7
        /\ ev_log[1] = <<"recv", e>> /\ ev_log[2] = <<"tick", None>>
        /\ ev_log[3] = <<"recv", e>> /\ ev_log[4] = <<"recv", e>>
        /\ ev_log[5] = <<"tick", None>> /\ ev_log[6] = <<"tick", None>>
        /\ ev_log[7] = <<"bcast", e>>
        /\ last_message = None

\* The frame send_packet wrote for call c, and the sub-servers spawned for it.
FramesOf(c) == {k \in 1 .. Len(pl_wire) : pl_wire[k].id = c.id}
ServersOf(c) == {k \in 1 .. Len(pl_srv) : pl_srv[k].data = c.id}
Calls == {pl_calls[k] : k \in 1 .. Len(pl_calls)}

\* C18: every frame has payloadSize and payloadTransferInfo both or
\* neither; the frame of a packet with a payload for which a listener was
\* bound carries the length of the payload (0 included) and the port of the
\* one sub-server that has that payload, on which no other sub-server of
\* the process is listening; a packet without payload goes out bare.
C18_PayloadAnnotation ==
    /\ \A k \in 1 .. Len(pl_wire) :
          pl_wire[k].payloadSize = NoPayload <=> pl_wire[k].payloadTransferInfo = NoPayload
    /\ \A c \in Calls :
          /\ Cardinality(FramesOf(c)) <= 1
          /\ (c.payload # NoPayload /\ c.open = "ok") =>
                /\ Cardinality(ServersOf(c)) = 1
                /\ \A s \in ServersOf(c) : pl_srv[s].len = c.payload
                /\ \A k \in FramesOf(c), s \in ServersOf(c) :
                      /\ pl_wire[k].payloadSize = c.payload
                      /\ pl_wire[k].payloadTransferInfo = pl_srv[s].port
          /\ c.payload = NoPayload =>
                /\ ServersOf(c) = {}
                /\ \A k \in FramesOf(c) : pl_wire[k].payloadSize = NoPayload
    /\ \A s, t \in 1 .. Len(pl_srv) :
          (s # t /\ pl_srv[s].pc = "accept" /\ pl_srv[t].pc = "accept") =>
             pl_srv[s].port # pl_srv[t].port

\* An empty payload went out on the second payload port while the first
\* is taken, annotated with size 0.
C18_Witness ==
    \E k \in 1 .. Len(pl_wire) :
        /\ pl_wire[k].payloadSize = 0
        /\ pl_wire[k].payloadTransferInfo = PAYLOAD_MIN_PORT + 1
        /\ \E s \in 1 .. Len(pl_srv) :
              /\ pl_srv[s].data = pl_wire[k].id
              /\ pl_srv[s].pc = "accept"
              /\ pl_srv[s].port = PAYLOAD_MIN_PORT + 1

\* C19: when send_packet is called for a packet with a payload and no port
\* from 1765 to 65535 can be bound, the call takes the Err arm: the frame is
\* written without annotation, no sub-server is spawned, and the call
\* returns what write_all and flush return.
C19_BindFailureSendsPlain ==
    \A c \in Calls :
        (c.payload # NoPayload /\ ~c.free) =>
           /\ c.open = "err"
           /\ c.result \in {"ok", "write_err", "flush_err"}
           /\ ServersOf(c) = {}
           /\ c.result # "write_err" =>
                 \E k \in FramesOf(c) : pl_wire[k].payloadSize = NoPayload

\* What a peer of sub-server s holds when it has the whole payload.
FullCopy(s) == <<pl_srv[s].data, pl_srv[s].len>>

\* C20: accepting a peer leaves the sub-server accepting; whatever happens
\* on one peer's connection (TLS failure, failed write or flush) changes
\* neither the sub-server nor the task of another peer; the end of the
\* sub-server changes no peer's task; and a peer whose TLS upgrade and
\* write succeeded holds a full copy of the payload.
C20_EveryPeerServed ==
    /\ [](\A c \in 1 .. Len(pl_peers) :
             pl_peers[c].pc \in {"flush", "done"} =>
                pl_peers[c].got = FullCopy(pl_peers[c].srv))
    /\ [][/\ pl_peers' # pl_peers => pl_srv' = pl_srv
          /\ \A c \in 1 .. Len(pl_peers) :
                /\ Len(pl_peers') >= Len(pl_peers)
                /\ pl_peers'[c] # pl_peers[c] =>
                      \A d \in (1 .. Len(pl_peers)) \ {c} : pl_peers'[d] = pl_peers[d]]_vars

\* A peer got the whole payload after an earlier peer of the same
\* sub-server failed its TLS upgrade, and the sub-server still accepts.
C20_Witness ==
    \E c, d \in 1 .. Len(pl_peers) :
        /\ c < d
        /\ pl_peers[c].srv = pl_peers[d].srv
        /\ pl_peers[c].pc = "failed" /\ pl_peers[c].got = <<>>
        /\ pl_peers[d].pc = "done" /\ pl_peers[d].got = FullCopy(pl_peers[d].srv)
        /\ pl_srv[pl_peers[d].srv].pc = "accept"

\* A sub-server whose task is over: by the timeout, or by a failed accept.
Terminated(k) == k <= Len(pl_srv) /\ pl_srv[k].pc \in {"timed_out", "closed"}

\* C21: every serve_payload task that was spawned ends; while it accepts
\* its 60 s have not yet been answered, so that it is the timeout that ends
\* a task no accept error ends, with or without peers; and no step of the
\* session, its end included, changes a sub-server that exists.
C21_SubServerTerminates ==
    /\ \A k \in 1 .. MaxPackets : [](k <= Len(pl_srv) => <>Terminated(k))
    /\ [](\A k \in 1 .. Len(pl_srv) :
             pl_srv[k].pc = "timed_out" => pl_srv[k].age >= PAYLOAD_TIMEOUT)
    /\ [][pl_pc' # pl_pc =>
             \A k \in 1 .. Len(pl_srv) : pl_srv'[k] = pl_srv[k]]_vars

\* The session is over and no peer ever connected; the sub-server went on
\* accepting after the end of the session until its timeout dropped it.
C21_Witness ==
    /\ pl_pc = "grace"
    /\ pl_peers = <<>>
    /\ Len(pl_srv) = 1
    /\ pl_srv[1].pc = "timed_out"
    /\ pl_srv[1].age = PAYLOAD_TIMEOUT

\* The ports of the range of open_tcp_server on which bind succeeds.
FreePorts == (MIN_PORT .. MAX_PORT) \ tp_busy

\* C22: what open_tcp_server returns is the lowest port of 1716..1764 on
\* which bind succeeds (so 1764 when 1716-1763 are taken, and never a port
\* outside the range, whatever is free there); it returns an error, which
\* ends server_main, only when all 49 ports are taken, and then it does;
\* while it scans, every port below the one it tries is taken.
C22_LowestFreePort ==
    /\ tp_pc \in {"scan", "serving", "failed"}
    /\ tp_port \in MIN_PORT .. MAX_PORT
    /\ tp_pc = "scan" => (MIN_PORT .. tp_port - 1) \subseteq tp_busy
    /\ tp_pc = "serving" =>
          /\ tp_port \in FreePorts
          /\ \A q \in FreePorts : tp_port <= q
    /\ tp_pc = "failed" => FreePorts = {} /\ tp_last # None
    /\ (FreePorts = {} /\ tp_pc # "scan") => tp_pc = "failed"
    /\ (MIN_PORT .. MAX_PORT - 1) \subseteq tp_busy /\ MAX_PORT \notin tp_busy /\ tp_pc # "scan"
          => tp_pc = "serving" /\ tp_port = MAX_PORT

\* 1716-1763 are taken, 1764 and 1765 are not: the listener is on 1764.
C22_Witness ==
    /\ tp_busy = MIN_PORT .. MAX_PORT - 1
    /\ tp_pc = "serving"
    /\ tp_port = MAX_PORT
    /\ tp_last # None

\* C23: every identity packet udp_server broadcasts has a tcpPort, and it
\* is the port on which the TCP listener of the process is bound when the
\* packet goes out; the identity packet a dialler writes ahead of TLS has
\* no tcpPort.
C23_TcpPortInIdentity ==
    /\ \A k \in 1 .. Len(id_cast) :
          /\ id_cast[k].pkt.tcpPort # NoPort
          /\ id_cast[k].pkt.tcpPort = id_cast[k].listener
    /\ \A k \in 1 .. Len(id_hello) : id_hello[k].pkt.tcpPort = NoPort

\* C24: a call of open_payload_tcp_server returns: with the first port
\* from 1765 to 65535 on which bind succeeds when there is one, and that
\* is the port of the sub-server; with an error when there is none.  The
\* port counter never overflows (no panic), no port below 1765 is bound,
\* and the scan does not go on for ever.
C24_PayloadScanBounded ==
    \A c \in Calls :
        c.payload # NoPayload =>
           /\ c.open \in {"ok", "err"}
           /\ c.first # NoBind =>
                 /\ c.open = "ok"
                 /\ \A s \in ServersOf(c) : pl_srv[s].port = c.first
           /\ c.first = NoBind =>
                 /\ c.open = "err"
                 /\ ServersOf(c) = {}

\* Lines of the peer whose 0x0A the task has taken off the connection.
Consumed ==
    {i \in 1 .. Len(lp_lines) :
        /\ lp_env.half # i
        /\ \A k \in 1 .. Len(lp_net) : lp_net[k][2] # i \/ lp_net[k][1] = "eof"}

\* C25: every line the task has taken off the connection up to its 0x0A
\* was handed to the parser whole, once, and in the order of sending: the
\* task never parses the rest of a line without its beginning, whatever
\* the outbound branch of the select did in between.
C25_NoInboundLoss ==
    /\ \A k \in 1 .. Len(lp_log) : lp_log[k][1] # "frag"
    /\ \A i \in Consumed :
          Cardinality({k \in 1 .. Len(lp_log) : lp_log[k] = <<"read", i>>}) = 1
    /\ Increasing(LogIds("read"))

\* Connection attempts of handle_udp_packet for device d that have dialled
\* and not yet registered: the tasks it spawned, and its own connect.
Dialling(d) ==
    {s \in Sessions :
        /\ sess[s].role = "Client"
        /\ sess[s].dev = d
        /\ sess[s].pc \in {"handshake", "add"}}
AtConnect(d) == IF ul_pc = "connect" /\ ul_dg.device_id = d THEN 1 ELSE 0

\* C26: for every remote deviceId at most one connection attempt started
\* by handle_udp_packet is between its dial and its add_device: a datagram
\* that names a device whose dialled session has not registered yet starts
\* no second dial.
C26_OneDialInFlight ==
    \A d \in Peers : Cardinality(Dialling(d)) + AtConnect(d) <= 1

=============================================================================
